---- MODULE Spec2Model ----
(***************************************************************************)
(* Model of the MI48 host driver (src/mi48.go, src/constants.go).          *)
(*                                                                         *)
(* Two execution contexts share one serial port: the foreground context    *)
(* ("fg"), which runs writeRegister / readRegister / StartStream through   *)
(* sendCommand, and the goroutine launched by StartStream ("loop").        *)
(* The byte stream from the device is kept as the sequence of frames still *)
(* (partly) unread plus the number of bytes already taken from the first   *)
(* one, so that every read consumes an exact number of bytes and a reader  *)
(* that starts in the middle of a frame sees garbage.  Payload bytes are   *)
(* assumed never to contain the marker "   #".                             *)
(***************************************************************************)
EXTENDS Integers, Sequences, FiniteSets, TLC

\* ---------------------------------------------------------------- bounds
MaxOps == 2          \* foreground API calls per behaviour
MaxFrames == 2       \* frames the device sends unasked (GFRA, noise) per behaviour
MaxShort == 1        \* Reads that return fewer bytes than asked, per behaviour
MaxGarbage == 13     \* garbage bytes before a frame given to readPacket

\* ------------------------------------------------------ program constants
HeaderLen == 12      \* readPacket: header := make([]byte, 12)
CrcLen == 4          \* readPacket: crc := make([]byte, 4)
LenOverhead == 8     \* readPacket: binary.BigEndian.Uint16(len) - 8
ChanCap == 10        \* StartStream: make(chan *image.Gray16, 10)
CONTNIUOUS_STREAM == 2

\* The length field of a frame whose four length characters are not hex.
BadHex == -1

\* register{Address, Length, ReadOnly} (constants.go)
Reg(a, l, ro) == [Address |-> a, Length |-> l, ReadOnly |-> ro]
FRAME_MODE == Reg(177, 1, FALSE)
FW_VERSION == Reg(178, 2, TRUE)
FRAME_RATE == Reg(180, 1, FALSE)
SENXOR_TYPE == Reg(186, 1, TRUE)
OFFSET_CORR == Reg(203, 1, FALSE)
SENXOR_ID == Reg(224, 6, TRUE)
FILTER_CONTROL == Reg(208, 1, FALSE)
FILTER_SETTING_1_LSB == Reg(209, 1, FALSE)
FILTER_SETTING_1_MSB == Reg(210, 1, FALSE)
FILTER_SETTING_2 == Reg(211, 1, FALSE)
NETD_CONFIG == Reg(212, 1, FALSE)
NETD_FACTOR == Reg(213, 1, FALSE)
NETD_PIXEL_X == Reg(214, 1, FALSE)
NETD_PIXEL_Y == Reg(215, 1, FALSE)

\* The registers the foreground calls of the model are made with.
OpRegs == {FRAME_RATE, FW_VERSION}
\* The values writeRegister is called with.
OpVals == {171}

\* cameraTypes / sensorSizes (constants.go): width and height per type code.
CameraTypeCodes == {0, 1, 2, 3, 8}
sensorSizes(t) ==
  CASE t = 0 -> <<80, 62>>
    [] t = 1 -> <<80, 62>>
    [] t = 2 -> <<32, 32>>
    [] t = 3 -> <<80, 62>>
    [] t = 8 -> <<160, 120>>

\* The camera types the model's sessions are initialised with.
ModelledTypes == {2}

\* len(image.NewGray16(r).Pix): two bytes per pixel.
PixLen(t) == 2 * sensorSizes(t)[1] * sensorSizes(t)[2]

\* ------------------------------------------------------------ hex coding
HexDigits == <<"0", "1", "2", "3", "4", "5", "6", "7",
               "8", "9", "A", "B", "C", "D", "E", "F">>

IsHex(ch) == \E i \in 1..16 : HexDigits[i] = ch

HexVal(ch) == (CHOOSE i \in 1..16 : HexDigits[i] = ch) - 1

\* fmt "%02X" of a uint8
Hex2(b) == <<HexDigits[(b \div 16) + 1], HexDigits[(b % 16) + 1]>>

\* fmt "%04X" of a length below 65536
Hex4(n) == Hex2(n \div 256) \o Hex2(n % 256)

\* hex.DecodeString: the bytes, or an error for an odd length or a non-hex char
DecodeString(s) ==
  IF Len(s) % 2 # 0 \/ \E i \in 1..Len(s) : ~IsHex(s[i])
  THEN [err |-> TRUE, bytes |-> <<>>]
  ELSE [err |-> FALSE,
        bytes |-> [i \in 1..(Len(s) \div 2) |->
                     16 * HexVal(s[2 * i - 1]) + HexVal(s[2 * i])]]

\* ------------------------------------------------------------ wire format
Marker == <<" ", " ", " ", "#">>
GFRA == <<"G", "F", "R", "A">>
WREG == <<"W", "R", "E", "G">>
RREG == <<"R", "R", "E", "G">>

\* writeRegister: fmt.Sprintf("WREG%02X%02XXXXX", reg.Address, value)
WregCmd(addr, value) == WREG \o Hex2(addr) \o Hex2(value) \o <<"X", "X", "X", "X">>

\* readRegister: fmt.Sprintf("RREG%02XXXXXXX", reg.Address+i)
RregCmd(addr) == RREG \o Hex2(addr) \o <<"X", "X", "X", "X", "X", "X">>

\* sendCommand: cmd = fmt.Sprintf("   #%04X%s", len(cmd), cmd)
EncodeCommand(cmd) == Marker \o Hex4(Len(cmd)) \o cmd

\* A frame on the wire from the device: its type tag, the value of its length
\* field (BadHex when the field is not hex), the number of payload bytes that
\* follow the header, the payload characters (kept for register responses;
\* pixel data is opaque), the serial number of an unasked frame (0 for an answer),
\* and whether it answers a command that was written while the streaming
\* goroutine was running.
Frame(tag, len, plen, body, id, str) ==
  [tag |-> tag, len |-> len, plen |-> plen, body |-> body, id |-> id, str |-> str]

FrameSize(f) == HeaderLen + f.plen + CrcLen

RECURSIVE WireBytes(_)
WireBytes(w) == IF w = <<>> THEN 0 ELSE FrameSize(Head(w)) + WireBytes(Tail(w))

\* Bytes that a read can take now.
Avail(w, p) == WireBytes(w) - p

\* The stream after n bytes are taken from it (n <= Avail(w, p)).
RECURSIVE Consume(_, _, _)
Consume(w, p, n) ==
  IF w = <<>> THEN [wire |-> <<>>, rpos |-> 0]
  ELSE IF p + n < FrameSize(Head(w)) THEN [wire |-> w, rpos |-> p + n]
  ELSE Consume(Tail(w), 0, p + n - FrameSize(Head(w)))

\* ------------------------------------------------------------------ state
VARIABLES
  cameraType,   \* MI48.cameraType, resolved by init
  wire,         \* serialPort, device to host: frames not yet fully read
  rpos,         \* bytes already read from Head(wire)
  closed,       \* the port has failed: what is left can be read, then errors
  cmdq,         \* serialPort, host to device: command frames written, unanswered
  dev,          \* the device: registers, streaming flag, emission counters
  readMutex,    \* MI48.readMutex: "free", or the context that locked it
  rp,           \* readPacket's frame of each context
  fg,           \* the foreground call in progress
  sc,           \* sendCommand's frame (foreground)
  lpc,          \* where the StartStream goroutine stands
  streamDone,   \* streamContext is cancelled
  videoStream,  \* the buffered channel's content
  chClosed,     \* close(videoStream) has run
  recvd,        \* what the consumer has received from the channel
  hist,         \* observations of the run the properties are stated on
  pk,           \* one readPacket call on a stream given byte by byte
  api           \* the exported call in progress (SetFramerate, SetFilters, ...)

vars == <<pk, api, cameraType, wire, rpos, closed, cmdq, dev, readMutex, rp, fg, sc,
          lpc, streamDone, videoStream, chClosed, recvd, hist>>

Ctx == {"fg", "loop"}
Other(c) == IF c = "fg" THEN "loop" ELSE "fg"

RpIdle == [pc |-> "idle", tag |-> <<>>, dlen |-> 0, body |-> <<>>, src |-> 0,
           str |-> FALSE, clean |-> TRUE, err |-> FALSE, dirty |-> FALSE]

FgIdle == [op |-> "idle", reg |-> FRAME_MODE, value |-> 0, i |-> 0, acc |-> <<>>]

ScIdle == [pc |-> "none", cmd |-> <<>>, seen |-> <<>>, data |-> <<>>, dlen |-> 0,
           err |-> FALSE]

\* (a variant that reads the first address every time)
RegAddrFirst(reg, i) == reg.Address % 256

\* uint8 arithmetic of reg.Address+i
RegAddr(reg, i) == (reg.Address + i) % 256

\* The value a device register holds before any write: SENXOR_TYPE holds the
\* camera type; any other register its own address, so that the bytes of a
\* multi-byte register differ.
RegInit(a, t) == IF a = SENXOR_TYPE.Address THEN t ELSE a

\* header := make([]byte, 12): twelve zero bytes
ZeroHeader == [i \in 1..HeaderLen |-> "NUL"]

\* No readPacket call on a byte stream is under way.
PkIdle == [pc |-> "idle", buf |-> <<>>, eof |-> FALSE, header |-> ZeroHeader,
           tag |-> <<>>, dlen |-> 0, data |-> <<>>, err |-> FALSE,
           input |-> [kind |-> "none", g |-> 0, cut |-> 0, size |-> 0,
                      tag |-> <<>>, payload |-> <<>>]]

\* The arguments of the exported calls: SetFramerate's frameRate (in
\* hundredths of a hertz), FilterSettings, NETDConfig.
NoArg == [frameRate |-> 0, Temporal |-> 0, RollingAverage |-> 0, Median |-> 0,
          Enabled |-> FALSE, RowInFrame |-> FALSE, Factor |-> 0, X |-> 0, Y |-> 0]

\* No exported call is under way.  MaxFPS is MI48.MaxFPS in hundredths of a
\* hertz; done lists the register writes the call under way has finished;
\* caller, ipc, sub and idone are init's frame while it runs and calls
\* SetFilters and SetNETD; ret is what the last call returned.
ApiIdle == [op |-> "idle", pc |-> 0, arg |-> NoArg, done |-> <<>>,
            caller |-> "none", ipc |-> 0, sub |-> FALSE, idone |-> <<>>,
            MaxFPS |-> 0,
            ret |-> [op |-> "none", arg |-> NoArg, err |-> FALSE, num |-> 0,
                     den |-> 1, done |-> <<>>]]

Init ==
  /\ pk = PkIdle
  /\ api = ApiIdle
  /\ cameraType \in ModelledTypes
  /\ wire = <<>>
  /\ rpos = 0
  /\ closed = FALSE
  /\ cmdq = <<>>
  /\ dev \in [mem : {[a \in {} |-> 0]}, streaming : BOOLEAN,
              nframes : {0}, nshort : {0}]
  /\ readMutex = "free"
  /\ rp = [c \in Ctx |-> RpIdle]
  /\ fg = FgIdle
  /\ sc = ScIdle
  /\ lpc = "none"
  /\ streamDone = FALSE
  /\ videoStream = <<>>
  /\ chClosed = FALSE
  /\ recvd = <<>>
  /\ hist = [io |-> [who |-> "none", kind |-> "none", held |-> FALSE],
             nops |-> 0,
             ret |-> [n |-> 0, op |-> "none", reg |-> FRAME_MODE, err |-> FALSE,
                      value |-> <<>>],
             wlog |-> <<>>, resps |-> <<>>,
             proc |-> [tag |-> <<>>, dlen |-> 0, src |-> 0, err |-> FALSE],
             stolen |-> FALSE,
             left |-> [by |-> "none", n |-> 0], split |-> FALSE]

\* -------------------------------------------------------------- readMutex
\* sync.Mutex: Lock blocks while the mutex is held, by whichever context.
Lock(c) == readMutex = "free" /\ readMutex' = c

Unlock == readMutex' = "free"

\* ------------------------------------------------------------- readPacket
\* The record of a transport access: who made it and whether that context
\* held readMutex at the time.
Access(c, kind) == [who |-> c, kind |-> kind, held |-> readMutex = c]

\* Another context's frame is spoilt when bytes are taken while it stands
\* between its header and its trailer.
Spoil(c, r) ==
  [rp EXCEPT ![c] = r,
             ![Other(c)].dirty = @ \/ rp[Other(c)].pc \in {"data", "crc"}]

Failed(r) == [r EXCEPT !.pc = "ret", !.err = TRUE, !.tag = <<>>, !.body = <<>>,
                       !.dlen = 0]

\* uint16 arithmetic of dataLength := binary.BigEndian.Uint16(len) - 8
DataLength(len) == (len - LenOverhead) % 65536

\* The stream after the 12-byte reads that do not start on the first byte of
\* a frame (so do not start with the marker) have been made: it stands at the
\* first byte of a frame, or holds fewer than 12 bytes.
\* (Computed a frame at a time: `here` reads start inside the first frame,
\* `can` reads find 12 bytes.)
RECURSIVE SkipGarbage(_, _)
SkipGarbage(w, p) ==
  IF p = 0 \/ Avail(w, p) < HeaderLen THEN [wire |-> w, rpos |-> p]
  ELSE LET size == FrameSize(Head(w))
           here == (size - p + HeaderLen - 1) \div HeaderLen
           can == Avail(w, p) \div HeaderLen
       IN IF here <= can
          THEN SkipGarbage(Tail(w), p + HeaderLen * here - size)
          ELSE [wire |-> w, rpos |-> p + HeaderLen * can]

\* for ; string(header)[:4] != "   #"; _, err = io.ReadFull(port, header):
\* the ReadFulls of 12 bytes up to and including the first that starts with
\* the marker, which is one that starts on the first byte of a frame; then the
\* length field is decoded.  A ReadFull that the closed port cannot fill
\* takes what is left and fails.
ReadHeader(c) ==
  /\ rp[c].pc = "hdr"
  /\ \/ Avail(wire, rpos) >= HeaderLen
     \/ closed
  /\ LET at == SkipGarbage(wire, rpos)
         ok == Avail(at.wire, at.rpos) >= HeaderLen
         f == Head(at.wire)
         next == IF ok THEN Consume(at.wire, at.rpos, HeaderLen)
                 ELSE IF closed THEN [wire |-> <<>>, rpos |-> 0]
                 ELSE at
         r == IF ~ok THEN (IF closed THEN Failed(rp[c]) ELSE rp[c])
              ELSE IF f.len = BadHex THEN Failed(rp[c])
              ELSE [rp[c] EXCEPT !.pc = "data", !.tag = f.tag, !.src = f.id,
                                 !.str = f.str, !.dlen = DataLength(f.len)]
     IN /\ wire' = next.wire
        /\ rpos' = next.rpos
        /\ rp' = Spoil(c, r)
        /\ hist' = [hist EXCEPT
                      !.io = Access(c, "read"),
                      !.split = @ \/ (hist.left.n > 0 /\ hist.left.by # c),
                      !.left = [by |-> "none", n |-> 0]]
  /\ UNCHANGED <<pk, api, cameraType, closed, cmdq, dev, readMutex, fg, sc, lpc,
                 streamDone, videoStream, chClosed, recvd>>

\* data = make([]byte, dataLength); io.ReadFull(port, data)
ReadData(c) ==
  /\ rp[c].pc = "data"
  /\ \/ Avail(wire, rpos) >= rp[c].dlen
     \/ closed
  /\ LET ok == Avail(wire, rpos) >= rp[c].dlen
         n == IF ok THEN rp[c].dlen ELSE Avail(wire, rpos)
         whole == /\ wire # <<>>
                  /\ rpos = HeaderLen
                  /\ Head(wire).plen = rp[c].dlen
         next == Consume(wire, rpos, n)
         r == IF ~ok THEN Failed(rp[c])
              ELSE [rp[c] EXCEPT !.pc = "crc", !.clean = whole,
                                 !.body = IF whole THEN Head(wire).body ELSE <<>>]
     IN /\ wire' = next.wire
        /\ rpos' = next.rpos
        /\ rp' = Spoil(c, r)
        /\ hist' = [hist EXCEPT !.io = Access(c, "read")]
  /\ UNCHANGED <<pk, api, cameraType, closed, cmdq, dev, readMutex, fg, sc, lpc,
                 streamDone, videoStream, chClosed, recvd>>

\* The byte counts one Read into a buffer of n bytes can return when a bytes
\* are there: all it can hold, or (the rest having not arrived yet) fewer.
ReadCounts(n, a) ==
  LET most == IF a < n THEN a ELSE n
  IN IF dev.nshort < MaxShort THEN 1..most ELSE {most}

\* crc := make([]byte, 4); port.Read(crc): a single Read, which returns as
\* soon as it has at least one byte, with 1 to 4 of them.
ReadCrc(c) ==
  /\ rp[c].pc = "crc"
  /\ \/ Avail(wire, rpos) >= 1
     \/ closed
  /\ IF Avail(wire, rpos) >= 1
     THEN \E k \in ReadCounts(CrcLen, Avail(wire, rpos)) :
            LET next == Consume(wire, rpos, k)
            IN /\ wire' = next.wire
               /\ rpos' = next.rpos
               /\ rp' = Spoil(c, [rp[c] EXCEPT !.pc = "ret"])
               /\ dev' = [dev EXCEPT !.nshort = IF k < CrcLen THEN @ + 1 ELSE @]
               /\ hist' = [hist EXCEPT !.io = Access(c, "read"),
                                       !.left = [by |-> c, n |-> CrcLen - k]]
     ELSE /\ rp' = [rp EXCEPT ![c] = Failed(rp[c])]
          /\ hist' = [hist EXCEPT !.io = Access(c, "read")]
          /\ UNCHANGED <<wire, rpos, dev>>
  /\ UNCHANGED <<pk, api, cameraType, closed, cmdq, readMutex, fg, sc, lpc,
                 streamDone, videoStream, chClosed, recvd>>

\* ------------------------------------------------------------ sendCommand
\* (a variant that stops at the first frame of any type)
MismatchUnread(packetType, cmdType) == packetType = <<>>

\* The loop condition of sendCommand: packetType != cmdType
Mismatch(packetType, cmdType) == packetType # cmdType

\* cmdType := cmd[0:4]
CmdType(cmd) == SubSeq(cmd, 1, 4)

\* The streaming goroutine exists and has not returned.
LoopRunning == lpc \notin {"none", "done"}

StartCommand(cmd) == [ScIdle EXCEPT !.pc = "write", !.cmd = cmd]

\* _, err = m.serialPort.Write([]byte(cmd)), before the mutex is taken
ScWrite ==
  /\ sc.pc = "write"
  /\ IF closed
     THEN /\ sc' = [sc EXCEPT !.pc = "ret", !.err = TRUE]
          /\ UNCHANGED <<cmdq, hist>>
     ELSE /\ cmdq' = Append(cmdq, [bytes |-> EncodeCommand(sc.cmd), str |-> LoopRunning])
          /\ sc' = [sc EXCEPT !.pc = "lock"]
          /\ hist' = [hist EXCEPT !.io = Access("fg", "write"),
                                  !.wlog = Append(@, sc.cmd)]
  /\ UNCHANGED <<pk, api, cameraType, wire, rpos, closed, dev, readMutex, rp, fg, lpc,
                 streamDone, videoStream, chClosed, recvd>>

\* m.readMutex.Lock(); defer m.readMutex.Unlock(); then the first readPacket
\* (packetType is "" and err is nil on entry, so the loop body falls through)
ScLock ==
  /\ sc.pc = "lock"
  /\ Lock("fg")
  /\ sc' = [sc EXCEPT !.pc = "read"]
  /\ rp' = [rp EXCEPT !["fg"] = [RpIdle EXCEPT !.pc = "hdr"]]
  /\ UNCHANGED <<pk, api, cameraType, wire, rpos, closed, cmdq, dev, fg, lpc, streamDone,
                 videoStream, chClosed, recvd, hist>>

\* One evaluation of the loop condition and body after readPacket returned:
\* a frame of another type is dropped and the next is read, an error returns
\* an error, a frame of the command's type returns its payload.  The deferred
\* Unlock runs on either return.
ScCheck ==
  /\ sc.pc = "read"
  /\ rp["fg"].pc = "ret"
  /\ LET r == rp["fg"]
         seen == Append(sc.seen, [tag |-> r.tag, err |-> r.err, body |-> r.body,
                                  dlen |-> r.dlen])
     IN IF Mismatch(r.tag, CmdType(sc.cmd))
        THEN IF r.err
             THEN /\ sc' = [sc EXCEPT !.pc = "ret", !.err = TRUE, !.seen = seen]
                  /\ rp' = [rp EXCEPT !["fg"] = RpIdle]
                  /\ Unlock
             ELSE /\ sc' = [sc EXCEPT !.seen = seen]
                  /\ rp' = [rp EXCEPT !["fg"] = [RpIdle EXCEPT !.pc = "hdr"]]
                  /\ UNCHANGED readMutex
        ELSE /\ sc' = [sc EXCEPT !.pc = "ret", !.err = r.err, !.seen = seen,
                                 !.data = r.body, !.dlen = r.dlen]
             /\ rp' = [rp EXCEPT !["fg"] = RpIdle]
             /\ Unlock
  /\ UNCHANGED <<pk, api, cameraType, wire, rpos, closed, cmdq, dev, fg, lpc, streamDone,
                 videoStream, chClosed, recvd, hist>>

\* ---------------------------------------------- writeRegister, readRegister
\* (a variant without the check)
IsReadOnlyNever(reg) == FALSE

\* if reg.ReadOnly { return fmt.Errorf("register is read-only") }
IsReadOnly(reg) == reg.ReadOnly

\* What an API call returned, numbered so that two equal returns differ.
Returned(op, reg, err, value) ==
  [n |-> hist.ret.n + 1, op |-> op, reg |-> reg, err |-> err, value |-> value]

\* A new API call: the log of what it writes and receives starts empty.
Entered == [hist EXCEPT !.nops = @ + 1, !.wlog = <<>>, !.resps = <<>>]

\* writeRegister(reg, value), entered from the caller op: the read-only check,
\* then sendCommand("WREG" addr value "XXXX").
WriteRegisterEnter(op, reg, value) ==
  IF IsReadOnly(reg)
  THEN /\ hist' = [Entered EXCEPT !.ret = Returned(op, reg, TRUE, <<>>)]
       /\ UNCHANGED <<fg, sc>>
  ELSE /\ fg' = [FgIdle EXCEPT !.op = op, !.reg = reg, !.value = value]
       /\ sc' = StartCommand(WregCmd(reg.Address, value))
       /\ hist' = Entered

CallWriteRegister ==
  /\ fg.op = "idle"
  /\ hist.nops < MaxOps
  /\ \E reg \in OpRegs, value \in OpVals : WriteRegisterEnter("writeRegister", reg, value)
  /\ UNCHANGED <<pk, api, cameraType, wire, rpos, closed, cmdq, dev, readMutex, rp, lpc,
                 streamDone, videoStream, chClosed, recvd>>

\* writeRegister after sendCommand returned: the error, wrapped, or nil.
WriteRegisterReturn ==
  /\ fg.op = "writeRegister"
  /\ sc.pc = "ret"
  /\ hist' = [hist EXCEPT !.ret = Returned("writeRegister", fg.reg, sc.err, <<>>)]
  /\ fg' = FgIdle
  /\ sc' = ScIdle
  /\ UNCHANGED <<pk, api, cameraType, wire, rpos, closed, cmdq, dev, readMutex, rp, lpc,
                 streamDone, videoStream, chClosed, recvd>>

\* readRegister(reg): for i := uint8(0); i < uint8(reg.Length); i++, the first
\* sendCommand("RREG" addr "XXXXXX")
CallReadRegister ==
  /\ fg.op = "idle"
  /\ hist.nops < MaxOps
  /\ \E reg \in OpRegs :
       /\ fg' = [FgIdle EXCEPT !.op = "readRegister", !.reg = reg]
       /\ sc' = StartCommand(RregCmd(RegAddr(reg, 0)))
  /\ hist' = Entered
  /\ UNCHANGED <<pk, api, cameraType, wire, rpos, closed, cmdq, dev, readMutex, rp, lpc,
                 streamDone, videoStream, chClosed, recvd>>

\* readRegister after one sendCommand returned: an error or an empty response
\* returns an error; otherwise the response is appended, and either the next
\* address is read or the whole is hex-decoded and returned.
ReadRegisterStep ==
  /\ fg.op = "readRegister"
  /\ sc.pc = "ret"
  /\ LET acc == fg.acc \o sc.data
         i == fg.i + 1
         value == DecodeString(acc)
     IN IF sc.err \/ sc.dlen = 0
        THEN /\ hist' = [hist EXCEPT !.ret = Returned("readRegister", fg.reg, TRUE, <<>>)]
             /\ fg' = FgIdle
             /\ sc' = ScIdle
        ELSE IF i < fg.reg.Length
        THEN /\ fg' = [fg EXCEPT !.i = i, !.acc = acc]
             /\ sc' = StartCommand(RregCmd(RegAddr(fg.reg, i)))
             /\ hist' = [hist EXCEPT !.resps = Append(@, sc.data)]
        ELSE /\ hist' = [hist EXCEPT
                           !.resps = Append(@, sc.data),
                           !.ret = Returned("readRegister", fg.reg, value.err,
                                            value.bytes)]
             /\ fg' = FgIdle
             /\ sc' = ScIdle
  /\ UNCHANGED <<pk, api, cameraType, wire, rpos, closed, cmdq, dev, readMutex, rp, lpc,
                 streamDone, videoStream, chClosed, recvd>>

\* ------------------------------------------------------------ StartStream
\* if err := m.writeRegister(FRAME_MODE, uint8(CONTNIUOUS_STREAM)); err != nil
CallStartStream ==
  /\ fg.op = "idle"
  /\ hist.nops < MaxOps
  /\ lpc = "none"
  /\ WriteRegisterEnter("StartStream", FRAME_MODE, CONTNIUOUS_STREAM)
  /\ UNCHANGED <<pk, api, cameraType, wire, rpos, closed, cmdq, dev, readMutex, rp, lpc,
                 streamDone, videoStream, chClosed, recvd>>

\* After writeRegister returned: on error StartStream returns it; otherwise it
\* makes the context and the channel, starts the goroutine and returns.
StartStreamReturn ==
  /\ fg.op = "StartStream"
  /\ sc.pc = "ret"
  /\ lpc' = IF sc.err THEN lpc ELSE "select"
  /\ hist' = [hist EXCEPT !.ret = Returned("StartStream", fg.reg, sc.err, <<>>)]
  /\ fg' = FgIdle
  /\ sc' = ScIdle
  /\ UNCHANGED <<pk, api, cameraType, wire, rpos, closed, cmdq, dev, readMutex, rp,
                 streamDone, videoStream, chClosed, recvd>>

\* The context.CancelFunc StartStream returned is called.
Cancel ==
  /\ lpc # "none"
  /\ ~streamDone
  /\ streamDone' = TRUE
  /\ UNCHANGED <<pk, api, cameraType, wire, rpos, closed, cmdq, dev, readMutex, rp, fg, sc,
                 lpc, videoStream, chClosed, recvd, hist>>

\* (a variant that counts words against bytes)
UndersizedWords(dlen, pix) == dlen < pix \div 2

\* if len(data) < len(frame.Pix) { return }
Undersized(dlen, pix) == dlen < pix

\* frame := image.NewGray16(sensorSizes[m.cameraType]);
\* frame.Pix = data[len(data)-len(frame.Pix):]
ImageFrame(t, dlen, src) ==
  [w |-> sensorSizes(t)[1], h |-> sensorSizes(t)[2],
   off |-> dlen - PixLen(t), pix |-> dlen - (dlen - PixLen(t)), src |-> src]

\* return from the goroutine: defer close(videoStream)
LoopReturn ==
  /\ lpc' = "done"
  /\ chClosed' = TRUE

\* select { case <-streamContext.Done(): return; default: ... }
LoopSelect ==
  /\ lpc = "select"
  /\ IF streamDone
     THEN LoopReturn
     ELSE lpc' = "lock" /\ UNCHANGED chClosed
  /\ UNCHANGED <<pk, api, cameraType, wire, rpos, closed, cmdq, dev, readMutex, rp, fg, sc,
                 streamDone, videoStream, recvd, hist>>

\* m.readMutex.Lock(), then packetType, data, err := m.readPacket()
LoopLock ==
  /\ lpc = "lock"
  /\ Lock("loop")
  /\ lpc' = "read"
  /\ rp' = [rp EXCEPT !["loop"] = [RpIdle EXCEPT !.pc = "hdr"]]
  /\ UNCHANGED <<pk, api, cameraType, wire, rpos, closed, cmdq, dev, fg, sc, streamDone,
                 videoStream, chClosed, recvd, hist>>

\* (a variant without the type check)
IsFrameAny(packetType) == TRUE

\* if packetType == "GFRA"
IsFrame(packetType) == packetType = GFRA

\* After readPacket returned: an error ends the goroutine; a GFRA frame that
\* is too short ends it; a GFRA frame is about to be sent; any other frame is
\* dropped.  No path of the loop body unlocks readMutex.
LoopProc ==
  /\ lpc = "read"
  /\ rp["loop"].pc = "ret"
  /\ LET r == rp["loop"]
     IN /\ hist' = [hist EXCEPT
                      !.proc = [tag |-> r.tag, dlen |-> r.dlen, src |-> r.src,
                                err |-> r.err],
                      !.stolen = @ \/ (~r.err /\ r.str)]
        /\ IF r.err
           THEN LoopReturn
           ELSE IF IsFrame(r.tag)
           THEN IF Undersized(r.dlen, PixLen(cameraType))
                THEN LoopReturn
                ELSE lpc' = "send" /\ UNCHANGED chClosed
           ELSE lpc' = "select" /\ UNCHANGED chClosed
  /\ UNCHANGED <<pk, api, cameraType, wire, rpos, closed, cmdq, dev, readMutex, rp, fg, sc,
                 streamDone, videoStream, recvd>>

\* videoStream <- frame: blocks while the channel holds ChanCap frames
LoopSend ==
  /\ lpc = "send"
  /\ Len(videoStream) < ChanCap
  /\ videoStream' = Append(videoStream,
                           ImageFrame(cameraType, rp["loop"].dlen, rp["loop"].src))
  /\ lpc' = "select"
  /\ UNCHANGED <<pk, api, cameraType, wire, rpos, closed, cmdq, dev, readMutex, rp, fg, sc,
                 streamDone, chClosed, recvd, hist>>

\* The consumer: frame := <-stream
Receive ==
  /\ videoStream # <<>>
  /\ recvd' = Append(recvd, Head(videoStream))
  /\ videoStream' = Tail(videoStream)
  /\ UNCHANGED <<pk, api, cameraType, wire, rpos, closed, cmdq, dev, readMutex, rp, fg, sc,
                 lpc, streamDone, chClosed, hist>>

\* ------------------------------------------------------------- the device
\* The other end of the serial port.  It answers each command frame it
\* receives with a frame of the command's type (an RREG answer carries the
\* register as two hex characters, a WREG answer carries nothing), and while
\* FRAME_MODE has the continuous-stream bit set it emits GFRA frames.
DevRead(a) == IF a \in DOMAIN dev.mem THEN dev.mem[a] ELSE RegInit(a, cameraType)

DevWrite(a, v) == [x \in DOMAIN dev.mem \cup {a} |-> IF x = a THEN v ELSE dev.mem[x]]

DeviceAnswer ==
  /\ ~closed
  /\ cmdq # <<>>
  /\ LET c == Head(cmdq)
         tag == SubSeq(c.bytes, 9, 12)
         addr == DecodeString(SubSeq(c.bytes, 13, 14)).bytes[1]
         value == DecodeString(SubSeq(c.bytes, 15, 16)).bytes[1]
     IN IF tag = WREG
        THEN /\ dev' = [dev EXCEPT
                          !.mem = DevWrite(addr, value),
                          !.streaming = IF addr = FRAME_MODE.Address
                                        THEN (value \div CONTNIUOUS_STREAM) % 2 = 1
                                        ELSE @]
             /\ wire' = Append(wire, Frame(WREG, LenOverhead, 0, <<>>, 0, c.str))
        ELSE /\ dev' = dev
             /\ wire' = Append(wire, Frame(RREG, LenOverhead + 2, 2, Hex2(DevRead(addr)),
                                           0, c.str))
  /\ cmdq' = Tail(cmdq)
  /\ UNCHANGED <<pk, api, cameraType, rpos, closed, readMutex, rp, fg, sc, lpc, streamDone,
                 videoStream, chClosed, recvd, hist>>

\* The payload sizes of the GFRA frames of the model: the pixel buffer alone,
\* the pixel buffer after a header of one row, and a buffer one pixel short.
GfraSizes(t) == {PixLen(t), PixLen(t) + 2 * sensorSizes(t)[1], PixLen(t) - 2}

DeviceFrame ==
  /\ ~closed
  /\ dev.streaming
  /\ dev.nframes < MaxFrames
  /\ \E plen \in GfraSizes(cameraType) :
       wire' = Append(wire, Frame(GFRA, plen + LenOverhead, plen, <<>>,
                                  dev.nframes + 1, FALSE))
  /\ dev' = [dev EXCEPT !.nframes = @ + 1]
  /\ UNCHANGED <<pk, api, cameraType, rpos, closed, cmdq, readMutex, rp, fg, sc, lpc,
                 streamDone, videoStream, chClosed, recvd, hist>>

\* A frame whose length field is not hex (line noise).
DeviceBad ==
  /\ ~closed
  /\ dev.nframes < MaxFrames
  /\ wire' = Append(wire, Frame(GFRA, BadHex, 0, <<>>, dev.nframes + 1, FALSE))
  /\ dev' = [dev EXCEPT !.nframes = @ + 1]
  /\ UNCHANGED <<pk, api, cameraType, rpos, closed, cmdq, readMutex, rp, fg, sc, lpc,
                 streamDone, videoStream, chClosed, recvd, hist>>

\* The port fails (the device is unplugged): nothing more arrives.
Close ==
  /\ ~closed
  /\ closed' = TRUE
  /\ UNCHANGED <<pk, api, cameraType, wire, rpos, cmdq, dev, readMutex, rp, fg, sc, lpc,
                 streamDone, videoStream, chClosed, recvd, hist>>

\* ---------------------------------------------------------- specification
Foreground ==
  \/ CallWriteRegister
  \/ WriteRegisterReturn
  \/ CallReadRegister
  \/ ReadRegisterStep
  \/ CallStartStream
  \/ StartStreamReturn
  \/ ScWrite
  \/ ScLock
  \/ ScCheck
  \/ ReadHeader("fg")
  \/ ReadData("fg")
  \/ ReadCrc("fg")

Loop ==
  \/ LoopSelect
  \/ LoopLock
  \/ LoopProc
  \/ LoopSend
  \/ ReadHeader("loop")
  \/ ReadData("loop")
  \/ ReadCrc("loop")

Device ==
  \/ DeviceAnswer
  \/ DeviceFrame
  \/ DeviceBad

Next ==
  \/ Foreground
  \/ Loop
  \/ Device
  \/ Cancel
  \/ Receive
  \/ Close

Spec == Init /\ [][Next]_vars

\* The foreground of a streaming session: StartStream and register writes.
StreamFg ==
  \/ CallStartStream
  \/ StartStreamReturn
  \/ CallWriteRegister
  \/ WriteRegisterReturn
  \/ ScWrite
  \/ ScLock
  \/ ScCheck
  \/ ReadHeader("fg")
  \/ ReadData("fg")
  \/ ReadCrc("fg")

StreamNext ==
  \/ StreamFg
  \/ Loop
  \/ Device
  \/ Cancel
  \/ Receive
  \/ Close

\* A streaming session in which the Go scheduler runs every goroutine that
\* can run (the goroutine of StartStream, the foreground call under way and
\* the consumer's receive) and the device answers the commands it is sent.
FairSpec ==
  /\ Init
  /\ [][StreamNext]_vars
  /\ WF_vars(Loop)
  /\ WF_vars(StreamFg)
  /\ WF_vars(Receive)
  /\ WF_vars(DeviceAnswer)

\* ---------------------------------------------- readPacket, byte by byte
\* The same readPacket, on a stream whose bytes are given: what it takes from
\* the stream and what it returns.  pk.buf is what the port will still
\* deliver; after it the port reports the end of the stream (pk.eof) or
\* blocks.
Take(s, n) == SubSeq(s, 1, n)

Drop(s, n) == SubSeq(s, n + 1, Len(s))

\* string(header)[:4] != "   #" is false
HeaderFound(header) == Take(header, 4) = Marker

\* header = header[4:]; hex.DecodeString(string(header[:4]))
LengthField(header) == SubSeq(header, 5, 8)

\* (a variant that takes the tag before header = header[4:])
PacketTypeUnsliced(header) == SubSeq(header, 5, 8)

\* header = header[4:]; packetType = string(header[4:])
PacketType(header) == SubSeq(header, 9, 12)

\* binary.BigEndian.Uint16
Uint16(b) == 256 * b[1] + b[2]

\* One turn of the header loop: io.ReadFull(port, header), then the loop
\* condition, then the error check of the body.  A ReadFull that the stream
\* cannot fill puts what is left at the front of header and fails; the
\* condition is evaluated before the error is looked at, and the error is
\* overwritten by the length decoding when the loop ends.
PkReadHeader ==
  /\ pk.pc = "hdr"
  /\ \/ Len(pk.buf) >= HeaderLen
     \/ pk.eof
  /\ LET full == Len(pk.buf) >= HeaderLen
         n == IF full THEN HeaderLen ELSE Len(pk.buf)
         header == Take(pk.buf, n) \o SubSeq(pk.header, n + 1, HeaderLen)
         len == DecodeString(LengthField(header))
         p == [pk EXCEPT !.buf = Drop(pk.buf, n), !.header = header]
     IN pk' = IF HeaderFound(header)
              THEN IF len.err
                   THEN [p EXCEPT !.pc = "ret", !.err = TRUE]
                   ELSE [p EXCEPT !.pc = "data", !.tag = PacketType(header),
                                  !.dlen = DataLength(Uint16(len.bytes))]
              ELSE IF full THEN p
              ELSE [p EXCEPT !.pc = "ret", !.err = TRUE]
  /\ UNCHANGED <<api, cameraType, wire, rpos, closed, cmdq, dev, readMutex, rp, fg,
                 sc, lpc, streamDone, videoStream, chClosed, recvd, hist>>

\* data = make([]byte, dataLength); io.ReadFull(port, data)
PkReadData ==
  /\ pk.pc = "data"
  /\ \/ Len(pk.buf) >= pk.dlen
     \/ pk.eof
  /\ pk' = IF Len(pk.buf) >= pk.dlen
           THEN [pk EXCEPT !.pc = "crc", !.data = Take(pk.buf, pk.dlen),
                           !.buf = Drop(pk.buf, pk.dlen)]
           ELSE [pk EXCEPT !.pc = "ret", !.err = TRUE, !.tag = <<>>, !.buf = <<>>]
  /\ UNCHANGED <<api, cameraType, wire, rpos, closed, cmdq, dev, readMutex, rp, fg,
                 sc, lpc, streamDone, videoStream, chClosed, recvd, hist>>

\* crc := make([]byte, 4); port.Read(crc): one Read, which returns the 1 to 4
\* bytes of the chunk that has arrived, or the end of the stream.
PkReadCrc ==
  /\ pk.pc = "crc"
  /\ \/ Len(pk.buf) >= 1
     \/ pk.eof
  /\ IF Len(pk.buf) >= 1
     THEN \E k \in ReadCounts(CrcLen, Len(pk.buf)) :
            pk' = [pk EXCEPT !.pc = "ret", !.buf = Drop(pk.buf, k)]
     ELSE pk' = [pk EXCEPT !.pc = "ret", !.err = TRUE, !.tag = <<>>, !.data = <<>>]
  /\ UNCHANGED <<api, cameraType, wire, rpos, closed, cmdq, dev, readMutex, rp, fg,
                 sc, lpc, streamDone, videoStream, chClosed, recvd, hist>>

\* ------------------------------------------------- streams for readPacket
\* n bytes that are not part of a marker
Garbage(n) == [i \in 1..n |-> "x"]

\* The four trailer bytes of a device frame (never checked).
CrcBytes == <<"c", "r", "c", "!">>

\* A frame as the device sends it: marker, length of what follows the length
\* field (tag, payload, trailer), tag, payload, trailer.
DeviceBytes(tag, payload) ==
  Marker \o Hex4(Len(payload) + LenOverhead) \o tag \o payload \o CrcBytes

\* A frame whose length field is given as its four characters.
RawBytes(lenchars, tag, rest) == Marker \o lenchars \o tag \o rest

PkTags == {GFRA, RREG, WREG}

PkPayloads == {<<>>, <<"B", "2">>, <<"p", "q", "r", "s", "t">>}

\* The length fields below 8 of the model.
RuntLengths == {0, 4, 7}

\* The command bodies of the model: those of writeRegister and readRegister
\* (eight characters), and shorter ones.
PkBodies == {Drop(WregCmd(FRAME_RATE.Address, 171), 4), Drop(RregCmd(FW_VERSION.Address), 4),
             <<"B", "4", "A", "B">>, <<"B", "4">>, <<>>}

\* The ends cut off a stream: none, part of the trailer, the trailer and
\* part of the payload.
PkCuts == {0, 1, 3, 5}

PkInput(kind, g, cut, bytes, tag, payload) ==
  [PkIdle EXCEPT !.pc = "hdr",
                 !.buf = Garbage(g) \o Take(bytes, Len(bytes) - cut),
                 !.input = [kind |-> kind, g |-> g, cut |-> cut, size |-> Len(bytes),
                            tag |-> tag, payload |-> payload]]

\* readPacket is called on: garbage, then one frame (a device frame, a frame
\* with a length field below 8 or not hex, or the bytes sendCommand writes
\* for a command), possibly cut short.
PkInputs ==
  LET frames == {PkInput("frame", g, cut, DeviceBytes(tag, payload), tag, payload) :
                   g \in 0..MaxGarbage, cut \in PkCuts, tag \in PkTags,
                   payload \in PkPayloads}
      runts == {PkInput("runt", 0, 0, RawBytes(Hex4(n), tag, CrcBytes), tag, <<>>) :
                  n \in RuntLengths, tag \in PkTags}
      nothex == {PkInput("nothex", 0, 0, RawBytes(<<"0", "0", "G", "0">>, tag, CrcBytes),
                         tag, <<>>) : tag \in PkTags}
      cmds == {PkInput("command", 0, 0, EncodeCommand(tag \o body), tag, body) :
                 tag \in {WREG, RREG}, body \in PkBodies}
  IN frames \cup runts \cup nothex \cup cmds

PkInit ==
  /\ pk \in {[p EXCEPT !.eof = e] : p \in PkInputs, e \in BOOLEAN}
  /\ api = ApiIdle
  /\ cameraType \in ModelledTypes
  /\ wire = <<>>
  /\ rpos = 0
  /\ closed = FALSE
  /\ cmdq = <<>>
  /\ dev = [mem |-> [a \in {} |-> 0], streaming |-> FALSE, nframes |-> 0, nshort |-> 0]
  /\ readMutex = "free"
  /\ rp = [c \in Ctx |-> RpIdle]
  /\ fg = FgIdle
  /\ sc = ScIdle
  /\ lpc = "none"
  /\ streamDone = FALSE
  /\ videoStream = <<>>
  /\ chClosed = FALSE
  /\ recvd = <<>>
  /\ hist = [io |-> [who |-> "none", kind |-> "none", held |-> FALSE],
             nops |-> 0,
             ret |-> [n |-> 0, op |-> "none", reg |-> FRAME_MODE, err |-> FALSE,
                      value |-> <<>>],
             wlog |-> <<>>, resps |-> <<>>,
             proc |-> [tag |-> <<>>, dlen |-> 0, src |-> 0, err |-> FALSE],
             stolen |-> FALSE,
             left |-> [by |-> "none", n |-> 0], split |-> FALSE]

PkNext ==
  \/ PkReadHeader
  \/ PkReadData
  \/ PkReadCrc

\* readPacket applied to each stream of PkInputs.
PacketSpec == PkInit /\ [][PkNext]_vars

\* ------------------------------------------------------- exported calls
\* The calls of the API that are made of register transactions.  A call is
\* api.op; api.pc counts the writeRegister calls it has made; each step below
\* runs when the writeRegister it waits for has returned (hist.ret).
Write(reg, value) == [reg |-> reg, value |-> value]

\* What a register transaction of the call under way came to.
Outcome(reg, value, err) == [reg |-> reg, value |-> value, err |-> err]

\* The call under way returns: to init when init made it, else to the program.
ApiReturn(op, err, num, den, done) ==
  IF api.caller = "init"
  THEN [api EXCEPT !.op = "init", !.pc = 0, !.arg = NoArg, !.done = <<>>,
                   !.caller = "none", !.sub = err, !.idone = @ \o done]
  ELSE [api EXCEPT !.op = "idle", !.pc = 0, !.arg = NoArg, !.done = <<>>,
                   !.ret = [op |-> op, arg |-> api.arg, err |-> err, num |-> num,
                            den |-> den, done |-> done]]

\* After the k-th writeRegister of a call that makes the writes ws in turn:
\* an error returns an error at once, the last write returns nil, otherwise
\* the next write is made.
WritesStep(op, ws) ==
  /\ api.op = op
  /\ api.pc >= 1
  /\ fg.op = "idle"
  /\ LET k == api.pc
         done == Append(api.done, Outcome(ws[k].reg, ws[k].value, hist.ret.err))
     IN IF hist.ret.err \/ k = Len(ws)
        THEN /\ api' = ApiReturn(op, hist.ret.err, 0, 1, done)
             /\ UNCHANGED <<fg, sc, hist>>
        ELSE /\ api' = [api EXCEPT !.pc = k + 1, !.done = done]
             /\ WriteRegisterEnter("writeRegister", ws[k + 1].reg, ws[k + 1].value)
  /\ UNCHANGED <<pk, cameraType, wire, rpos, closed, cmdq, dev, readMutex, rp, lpc,
                 streamDone, videoStream, chClosed, recvd>>

\* The first writeRegister of a call that makes the writes ws.
WritesStart(op, arg, ws, caller) ==
  /\ api' = [api EXCEPT !.op = op, !.pc = 1, !.arg = arg, !.done = <<>>,
                        !.caller = caller]
  /\ WriteRegisterEnter("writeRegister", ws[1].reg, ws[1].value)

\* getMaxFPS: 25.5 for the types 0 and 1, 28.57 for type 2, else 0.0
MaxFPSOf(t) ==
  CASE t \in {0, 1} -> 2550
    [] t = 2 -> 2857
    [] OTHER -> 0

\* math.Round(m.MaxFPS / frameRate), for positive operands: half away from zero
RoundDiv(a, b) == (2 * a + b) \div (2 * b)

\* uint8(x) of an int
Uint8(x) == x % 256

\* The frame rates SetFramerate is called with, in hundredths of a hertz.
TargetRates == {0, 5, 10, 1000, 2500, 2550, 2551, 2857, 3000}

\* SetFramerate(frameRate): the range check, the divisor, writeRegister.
CallSetFramerate ==
  /\ api.op = "idle"
  /\ fg.op = "idle"
  /\ hist.nops < MaxOps
  /\ \E frameRate \in TargetRates :
       LET arg == [NoArg EXCEPT !.frameRate = frameRate]
       IN IF frameRate = 0 \/ frameRate > api.MaxFPS
          THEN /\ api' = [api EXCEPT !.ret = [op |-> "SetFramerate", arg |-> arg,
                                              err |-> TRUE, num |-> 0, den |-> 1,
                                              done |-> <<>>]]
               /\ UNCHANGED <<fg, sc, hist>>
          ELSE WritesStart("SetFramerate", arg,
                           <<Write(FRAME_RATE, Uint8(RoundDiv(api.MaxFPS, frameRate)))>>,
                           "none")
  /\ UNCHANGED <<pk, cameraType, wire, rpos, closed, cmdq, dev, readMutex, rp, lpc,
                 streamDone, videoStream, chClosed, recvd>>

\* return m.MaxFPS / float64(divisor), err
SetFramerateReturn ==
  /\ api.op = "SetFramerate"
  /\ fg.op = "idle"
  /\ LET divisor == RoundDiv(api.MaxFPS, api.arg.frameRate)
     IN api' = ApiReturn("SetFramerate", hist.ret.err, api.MaxFPS, divisor,
                         <<Outcome(FRAME_RATE, Uint8(divisor), hist.ret.err)>>)
  /\ UNCHANGED <<pk, cameraType, wire, rpos, closed, cmdq, dev, readMutex, rp, fg, sc,
                 lpc, streamDone, videoStream, chClosed, recvd, hist>>

DefaultFilterSettings == [NoArg EXCEPT !.Temporal = 125, !.RollingAverage = 4]

\* The FilterSettings SetFilters is called with.
FilterInputs ==
  {DefaultFilterSettings, NoArg,
   [NoArg EXCEPT !.Temporal = 300, !.Median = 5],
   [NoArg EXCEPT !.RollingAverage = 4, !.Median = 3]}

\* fltCtrl, fltSet1Lsb, fltSet1Msb, fltSet2 of SetFilters (the bits that are
\* or-ed into fltCtrl are disjoint).
FilterBytes(fs) ==
  [ctrl |-> (IF fs.Temporal > 0 THEN 3 ELSE 0)
              + (IF fs.RollingAverage > 0 THEN 4 ELSE 0)
              + (IF fs.Median > 0 THEN 64 ELSE 0)
              + (IF fs.Median > 3 THEN 32 ELSE 0),
   lsb |-> IF fs.Temporal > 0 THEN fs.Temporal % 256 ELSE 0,
   msb |-> IF fs.Temporal > 0 THEN (fs.Temporal \div 256) % 256 ELSE 0,
   set2 |-> IF fs.RollingAverage > 0 THEN Uint8(fs.RollingAverage) ELSE 0]

\* (a variant that enables the filters before it sets them)
FilterWritesControlFirst(fs) ==
  <<Write(FILTER_CONTROL, FilterBytes(fs).ctrl),
    Write(FILTER_SETTING_1_LSB, FilterBytes(fs).lsb),
    Write(FILTER_SETTING_1_MSB, FilterBytes(fs).msb),
    Write(FILTER_SETTING_2, FilterBytes(fs).set2)>>

\* The four writeRegister calls of SetFilters, in the order of the code.
FilterWrites(fs) ==
  <<Write(FILTER_SETTING_1_LSB, FilterBytes(fs).lsb),
    Write(FILTER_SETTING_1_MSB, FilterBytes(fs).msb),
    Write(FILTER_SETTING_2, FilterBytes(fs).set2),
    Write(FILTER_CONTROL, FilterBytes(fs).ctrl)>>

CallSetFilters ==
  /\ api.op = "idle"
  /\ fg.op = "idle"
  /\ hist.nops < MaxOps
  /\ \E fs \in FilterInputs : WritesStart("SetFilters", fs, FilterWrites(fs), "none")
  /\ UNCHANGED <<pk, cameraType, wire, rpos, closed, cmdq, dev, readMutex, rp, lpc,
                 streamDone, videoStream, chClosed, recvd>>

\* After each writeRegister of SetFilters.
SetFiltersStep ==
  /\ api.op = "SetFilters"
  /\ WritesStep("SetFilters", FilterWrites(api.arg))

DefaultNETDConfig == [NoArg EXCEPT !.Factor = 20]

\* The NETDConfigs SetNETD is called with.
NetdInputs ==
  {DefaultNETDConfig} \cup
  {[NoArg EXCEPT !.Enabled = e, !.RowInFrame = r, !.Factor = 20, !.X = 5, !.Y = 7] :
     e \in BOOLEAN, r \in BOOLEAN}

\* (a variant that sets the two bits independently)
NetdConfigByteFlat(cfg) ==
  (IF cfg.Enabled THEN 1 ELSE 0) + (IF cfg.RowInFrame THEN 2 ELSE 0)

\* netd_config: bit 0 when Enabled, and then bit 1 when RowInFrame
NetdConfigByte(cfg) ==
  IF cfg.Enabled THEN 1 + (IF cfg.RowInFrame THEN 2 ELSE 0) ELSE 0

\* The four writeRegister calls of SetNETD, in the order of the code.
NetdWrites(cfg) ==
  <<Write(NETD_FACTOR, cfg.Factor),
    Write(NETD_PIXEL_Y, cfg.Y),
    Write(NETD_PIXEL_X, cfg.X),
    Write(NETD_CONFIG, NetdConfigByte(cfg))>>

CallSetNETD ==
  /\ api.op = "idle"
  /\ fg.op = "idle"
  /\ hist.nops < MaxOps
  /\ \E cfg \in NetdInputs : WritesStart("SetNETD", cfg, NetdWrites(cfg), "none")
  /\ UNCHANGED <<pk, cameraType, wire, rpos, closed, cmdq, dev, readMutex, rp, lpc,
                 streamDone, videoStream, chClosed, recvd>>

\* After each writeRegister of SetNETD.
SetNETDStep ==
  /\ api.op = "SetNETD"
  /\ WritesStep("SetNETD", NetdWrites(api.arg))

\* The variables no call has touched yet: an open port with nothing in
\* flight, a free mutex, no goroutine, no channel.
Fresh ==
  /\ pk = PkIdle
  /\ wire = <<>>
  /\ rpos = 0
  /\ closed = FALSE
  /\ cmdq = <<>>
  /\ readMutex = "free"
  /\ rp = [c \in Ctx |-> RpIdle]
  /\ fg = FgIdle
  /\ sc = ScIdle
  /\ lpc = "none"
  /\ streamDone = FALSE
  /\ videoStream = <<>>
  /\ chClosed = FALSE
  /\ recvd = <<>>
  /\ hist = [io |-> [who |-> "none", kind |-> "none", held |-> FALSE],
             nops |-> 0,
             ret |-> [n |-> 0, op |-> "none", reg |-> FRAME_MODE, err |-> FALSE,
                      value |-> <<>>],
             wlog |-> <<>>, resps |-> <<>>,
             proc |-> [tag |-> <<>>, dlen |-> 0, src |-> 0, err |-> FALSE],
             stolen |-> FALSE,
             left |-> [by |-> "none", n |-> 0], split |-> FALSE]

\* The camera types of the sessions the exported calls are made on.
ApiTypes == {1, 2, 8}

\* A session after Open: init has set cameraType and MaxFPS.
ApiInit ==
  /\ Fresh
  /\ cameraType \in ApiTypes
  /\ api = [ApiIdle EXCEPT !.MaxFPS = MaxFPSOf(cameraType)]
  /\ dev = [mem |-> [a \in {} |-> 0], streaming |-> FALSE, nframes |-> 0, nshort |-> 0]

\* The transaction machinery under an exported call.
Transact ==
  \/ WriteRegisterReturn
  \/ ScWrite
  \/ ScLock
  \/ ScCheck
  \/ ReadHeader("fg")
  \/ ReadData("fg")
  \/ ReadCrc("fg")
  \/ DeviceAnswer
  \/ Close

ApiNext ==
  \/ CallSetFramerate
  \/ SetFramerateReturn
  \/ CallSetFilters
  \/ SetFiltersStep
  \/ CallSetNETD
  \/ SetNETDStep
  \/ Transact

\* Exported calls, one after the other, on a session that does not stream.
ApiSpec == ApiInit /\ [][ApiNext]_vars

\* ------------------------------------------------------------------- init
\* init, called by Open: the camera type, the catalog lookup, the identity
\* reads, MaxFPS, then the default filters, offset and NETD.  api.ipc is the
\* call init waits for; api.idone lists the register transactions made.
ReadRegisterEnter(reg) ==
  /\ fg' = [FgIdle EXCEPT !.op = "readRegister", !.reg = reg]
  /\ sc' = StartCommand(RregCmd(RegAddr(reg, 0)))
  /\ hist' = Entered

\* (a variant without the lookup)
KnownTypeAny(t) == TRUE

\* _, ok = cameraTypes[m.cameraType]
KnownType(t) == t \in CameraTypeCodes

\* The keys of sensorSizes.
SensorSizeCodes == {0, 1, 2, 3, 8}

\* The type codes the device's SENXOR_TYPE register can hold in the model:
\* those of the catalog and two that are not in it.
DevTypeCodes == CameraTypeCodes \cup {4, 255}

\* SetTemperatureOffset: offset / 0.05 as a uint8, negative offsets counted
\* down from 256 (steps is offset / 0.05).
TemperatureOffsetByte(steps) ==
  IF steps < 0 THEN Uint8(256 - (0 - steps)) ELSE Uint8(steps)

\* What the readRegister init waited for came to: its first byte, or an error.
ReadOutcome(reg) ==
  Outcome(reg, IF hist.ret.err THEN 0 ELSE hist.ret.value[1], hist.ret.err)

InitReturn(err, log) ==
  [api EXCEPT !.op = "idle", !.ipc = 0, !.idone = <<>>, !.sub = FALSE,
              !.ret = [op |-> "init", arg |-> NoArg, err |-> err, num |-> 0,
                       den |-> 1, done |-> log]]

\* m.cameraType, err = m.getCameraType()
CallInit ==
  /\ api.op = "idle"
  /\ api.ret.op = "none"
  /\ fg.op = "idle"
  /\ api' = [api EXCEPT !.op = "init", !.ipc = 1]
  /\ ReadRegisterEnter(SENXOR_TYPE)
  /\ UNCHANGED cameraType
  /\ UNCHANGED <<pk, wire, rpos, closed, cmdq, dev, readMutex, rp, lpc, streamDone,
                 videoStream, chClosed, recvd>>

\* getCameraType returned: its error, or the lookup in cameraTypes, which
\* fails with "unknown camera type"; otherwise m.getCameraID()
InitGotType ==
  /\ api.op = "init"
  /\ api.ipc = 1
  /\ fg.op = "idle"
  /\ LET log == Append(api.idone, ReadOutcome(SENXOR_TYPE))
     IN /\ cameraType' = IF hist.ret.err THEN 0 ELSE hist.ret.value[1]
        /\ IF hist.ret.err \/ ~KnownType(hist.ret.value[1])
           THEN /\ api' = InitReturn(TRUE, log)
                /\ UNCHANGED <<fg, sc, hist>>
           ELSE /\ api' = [api EXCEPT !.ipc = 2, !.idone = log]
                /\ ReadRegisterEnter(SENXOR_ID)
  /\ UNCHANGED <<pk, wire, rpos, closed, cmdq, dev, readMutex, rp, lpc, streamDone,
                 videoStream, chClosed, recvd>>

\* getCameraID returned: its error, or m.getFirmwareVersion()
InitGotID ==
  /\ api.op = "init"
  /\ api.ipc = 2
  /\ fg.op = "idle"
  /\ LET log == Append(api.idone, ReadOutcome(SENXOR_ID))
     IN IF hist.ret.err
        THEN /\ api' = InitReturn(TRUE, log)
             /\ UNCHANGED <<fg, sc, hist>>
        ELSE /\ api' = [api EXCEPT !.ipc = 3, !.idone = log]
             /\ ReadRegisterEnter(FW_VERSION)
  /\ UNCHANGED cameraType
  /\ UNCHANGED <<pk, wire, rpos, closed, cmdq, dev, readMutex, rp, lpc, streamDone,
                 videoStream, chClosed, recvd>>

\* getFirmwareVersion returned: its error, or m.getMaxFPS()
InitGotVersion ==
  /\ api.op = "init"
  /\ api.ipc = 3
  /\ fg.op = "idle"
  /\ LET log == Append(api.idone, ReadOutcome(FW_VERSION))
     IN IF hist.ret.err
        THEN /\ api' = InitReturn(TRUE, log)
             /\ UNCHANGED <<fg, sc, hist>>
        ELSE /\ api' = [api EXCEPT !.ipc = 4, !.idone = log]
             /\ ReadRegisterEnter(SENXOR_TYPE)
  /\ UNCHANGED cameraType
  /\ UNCHANGED <<pk, wire, rpos, closed, cmdq, dev, readMutex, rp, lpc, streamDone,
                 videoStream, chClosed, recvd>>

\* getMaxFPS returned: its error, or m.SetFilters(DefaultFilterSettings)
InitGotMaxFPS ==
  /\ api.op = "init"
  /\ api.ipc = 4
  /\ fg.op = "idle"
  /\ LET log == Append(api.idone, ReadOutcome(SENXOR_TYPE))
         ws == FilterWrites(DefaultFilterSettings)
     IN IF hist.ret.err
        THEN /\ api' = [InitReturn(TRUE, log) EXCEPT !.MaxFPS = 0]
             /\ UNCHANGED <<fg, sc, hist>>
        ELSE /\ api' = [api EXCEPT !.ipc = 5, !.idone = log,
                                   !.MaxFPS = MaxFPSOf(hist.ret.value[1]),
                                   !.op = "SetFilters", !.pc = 1,
                                   !.arg = DefaultFilterSettings, !.done = <<>>,
                                   !.caller = "init"]
             /\ WriteRegisterEnter("writeRegister", ws[1].reg, ws[1].value)
  /\ UNCHANGED cameraType
  /\ UNCHANGED <<pk, wire, rpos, closed, cmdq, dev, readMutex, rp, lpc, streamDone,
                 videoStream, chClosed, recvd>>

\* SetFilters returned: its error, or m.SetTemperatureOffset(0.0), which is
\* writeRegister(OFFSET_CORR, uint8(0))
InitFiltersSet ==
  /\ api.op = "init"
  /\ api.ipc = 5
  /\ fg.op = "idle"
  /\ IF api.sub
     THEN /\ api' = InitReturn(TRUE, api.idone)
          /\ UNCHANGED <<fg, sc, hist>>
     ELSE /\ api' = [api EXCEPT !.ipc = 6]
          /\ WriteRegisterEnter("writeRegister", OFFSET_CORR, TemperatureOffsetByte(0))
  /\ UNCHANGED cameraType
  /\ UNCHANGED <<pk, wire, rpos, closed, cmdq, dev, readMutex, rp, lpc, streamDone,
                 videoStream, chClosed, recvd>>

\* SetTemperatureOffset returned: its error, or m.SetNETD(DefaultNETDConfig)
InitOffsetSet ==
  /\ api.op = "init"
  /\ api.ipc = 6
  /\ fg.op = "idle"
  /\ LET log == Append(api.idone,
                       Outcome(OFFSET_CORR, TemperatureOffsetByte(0), hist.ret.err))
         ws == NetdWrites(DefaultNETDConfig)
     IN IF hist.ret.err
        THEN /\ api' = InitReturn(TRUE, log)
             /\ UNCHANGED <<fg, sc, hist>>
        ELSE /\ api' = [api EXCEPT !.ipc = 7, !.idone = log,
                                   !.op = "SetNETD", !.pc = 1,
                                   !.arg = DefaultNETDConfig, !.done = <<>>,
                                   !.caller = "init"]
             /\ WriteRegisterEnter("writeRegister", ws[1].reg, ws[1].value)
  /\ UNCHANGED cameraType
  /\ UNCHANGED <<pk, wire, rpos, closed, cmdq, dev, readMutex, rp, lpc, streamDone,
                 videoStream, chClosed, recvd>>

\* SetNETD returned: init returns its error, or nil.
InitNetdSet ==
  /\ api.op = "init"
  /\ api.ipc = 7
  /\ fg.op = "idle"
  /\ api' = InitReturn(api.sub, api.idone)
  /\ UNCHANGED <<pk, cameraType, wire, rpos, closed, cmdq, dev, readMutex, rp, fg, sc,
                 lpc, streamDone, videoStream, chClosed, recvd, hist>>

\* Open has opened the port and init has not run: the MI48 has its zero
\* values, and the device is of some type.
OpenInit ==
  /\ Fresh
  /\ cameraType = 0
  /\ api = ApiIdle
  /\ \E code \in DevTypeCodes :
       dev = [mem |-> [a \in {SENXOR_TYPE.Address} |-> code], streaming |-> FALSE,
              nframes |-> 0, nshort |-> 0]

OpenNext ==
  \/ CallInit
  \/ InitGotType
  \/ InitGotID
  \/ InitGotVersion
  \/ InitGotMaxFPS
  \/ InitFiltersSet
  \/ InitOffsetSet
  \/ InitNetdSet
  \/ SetFiltersStep
  \/ SetNETDStep
  \/ ReadRegisterStep
  \/ Transact

\* Open: one init on a device of any of the type codes.
OpenSpec == OpenInit /\ [][OpenNext]_vars

\* ================================================================ claims
InReadPacket(c) == rp[c].pc \in {"hdr", "data", "crc"}

Decoded(c) == rp[c].pc = "ret" /\ ~rp[c].err

RECURSIVE Concat(_)
Concat(ss) == IF ss = <<>> THEN <<>> ELSE Head(ss) \o Concat(Tail(ss))

\* ---- C1
\* StartStream has returned, the goroutine has not read yet, and the port
\* holds one well-formed GFRA frame of exactly the pixel-buffer size and has
\* closed.
C1Scenario ==
  /\ lpc = "select"
  /\ readMutex = "free"
  /\ fg.op = "idle"
  /\ closed
  /\ rpos = 0
  /\ Len(wire) = 1
  /\ wire[1].tag = GFRA
  /\ wire[1].plen = PixLen(cameraType)
  /\ wire[1].len = PixLen(cameraType) + LenOverhead
  /\ videoStream = <<>>
  /\ recvd = <<>>
  /\ ~chClosed

C1Goal ==
  /\ chClosed
  /\ videoStream = <<>>
  /\ Len(recvd) = 1
  /\ recvd[1].w = sensorSizes(cameraType)[1]
  /\ recvd[1].h = sensorSizes(cameraType)[2]
  /\ recvd[1].pix = PixLen(cameraType)

\* C1: after StartStream, a transport that delivers one well-formed GFRA frame
\* of exactly the expected size and then closes leads to the consumer having
\* received exactly one image of the sensor geometry and to the channel being
\* closed (unless the stream is cancelled first).
C1Claim == C1Scenario ~> (C1Goal \/ streamDone)

\* ---- C2
\* C2: once cancel has been called, the goroutine exits and the channel is
\* closed, unless the goroutine is inside readPacket (the device must keep
\* sending for it to leave) or a foreground command holds the mutex.
C2Claim ==
  (streamDone /\ LoopRunning) ~> (chClosed \/ InReadPacket("loop") \/ readMutex = "fg")

\* ---- C3
\* C3: the goroutine holds readMutex only while it decodes one frame: at the
\* top of the loop, while it waits for the mutex, and after it has returned,
\* the goroutine is not the holder.
C3Claim == lpc \in {"select", "lock", "done"} => readMutex # "loop"

\* ---- C4
\* C4: every access to the port, write or read, is made by a context that
\* holds readMutex, and sendCommand holds it from its write to its return.
C4Claim ==
  /\ hist.io.kind # "none" => hist.io.held
  /\ sc.pc \in {"lock", "read"} => readMutex = "fg"

\* ---- C5
\* C5: at most one context is inside readPacket at a time, every decoded
\* frame is a device frame read whole (header and payload of one frame, no
\* byte taken by the other context in between), and no context consumes
\* trailer bytes of a frame that the other context decoded.
C5Claim ==
  /\ ~(InReadPacket("fg") /\ InReadPacket("loop"))
  /\ \A c \in Ctx : Decoded(c) =>
       /\ rp[c].tag \in {GFRA, WREG, RREG}
       /\ rp[c].clean
       /\ ~rp[c].dirty
  /\ ~hist.split

\* ---- C6
\* C6: the goroutine never decodes the answer to a command that was written
\* while the goroutine was running.
C6Claim == ~hist.stolen

\* ---- C7
\* C7: when the last frame the goroutine decoded is a GFRA frame with fewer
\* payload bytes than the pixel buffer, the goroutine has returned, the
\* channel is closed, and no image made from that frame is in the channel or
\* with the consumer.
C7Short ==
  /\ hist.proc.tag = GFRA
  /\ ~hist.proc.err
  /\ hist.proc.dlen < PixLen(cameraType)

C7Thm ==
  C7Short =>
    /\ lpc = "done"
    /\ chClosed
    /\ \A i \in 1..Len(videoStream) : videoStream[i].src # hist.proc.src
    /\ \A i \in 1..Len(recvd) : recvd[i].src # hist.proc.src

C7Witness == C7Short /\ chClosed /\ recvd = <<>>

\* ---- C8
\* C8: a writeRegister call on a read-only register returns an error in the
\* step that makes the call, and that step leaves the port (both directions),
\* the mutex and the record of port accesses as they were.
C8Thm ==
  [][(hist'.ret.n # hist.ret.n /\ hist'.ret.op = "writeRegister"
        /\ hist'.ret.reg.ReadOnly)
       => /\ hist'.ret.err
          /\ fg.op = "idle"
          /\ fg'.op = "idle"
          /\ hist'.io = hist.io
          /\ UNCHANGED <<wire, rpos, closed, cmdq, dev, readMutex, rp, sc>>]_vars

C8Witness ==
  /\ hist.ret.op = "writeRegister"
  /\ hist.ret.reg.ReadOnly
  /\ hist.ret.err
  /\ hist.wlog = <<>>

\* ---- C9
\* C9: a readRegister call that succeeded on a register of address A and
\* length N wrote exactly the N commands RREG A, RREG A+1, ..., in that
\* order, and returned the N responses concatenated in that order, each hex
\* decoded to the byte it spells; and at every moment of a readRegister call
\* the commands written exceed the responses received by at most one.
C9Thm ==
  /\ (hist.ret.op = "readRegister" /\ ~hist.ret.err /\ fg.op = "idle") =>
       LET A == hist.ret.reg.Address
           N == hist.ret.reg.Length
       IN /\ hist.wlog = [i \in 1..N |->
                            RREG \o Hex2((A + i - 1) % 256)
                                 \o <<"X", "X", "X", "X", "X", "X">>]
          /\ Len(hist.resps) = N
          /\ hist.ret.value = DecodeString(Concat(hist.resps)).bytes
          /\ Len(hist.ret.value) = N
          /\ \A i \in 1..N :
               <<hist.ret.value[i]>> = DecodeString(hist.resps[i]).bytes
  /\ fg.op = "readRegister" =>
       /\ Len(hist.wlog) - Len(hist.resps) \in {0, 1}
       /\ Len(hist.resps) = fg.i

C9Witness ==
  /\ hist.ret.op = "readRegister"
  /\ ~hist.ret.err
  /\ fg.op = "idle"
  /\ hist.ret.reg.Length = 2
  /\ Len(hist.wlog) = 2
  /\ hist.ret.value = <<178, 179>>

\* ---- C10
\* C10: sendCommand reads frames one at a time; every frame it read before
\* its last was decoded without error and had another type than the command;
\* it returns an error exactly when its last readPacket failed, and otherwise
\* its last frame has the command's type and the payload returned is that
\* frame's; having returned, it is not reading.
C10Thm ==
  /\ sc.pc \in {"read", "ret"} =>
       \A i \in 1..Len(sc.seen) :
         (i < Len(sc.seen) \/ sc.pc = "read") =>
           (~sc.seen[i].err /\ sc.seen[i].tag # SubSeq(sc.cmd, 1, 4))
  /\ (sc.pc = "ret" /\ sc.seen # <<>>) =>
       LET last == sc.seen[Len(sc.seen)]
       IN /\ sc.err = last.err
          /\ ~sc.err => /\ last.tag = SubSeq(sc.cmd, 1, 4)
                        /\ sc.data = last.body
                        /\ sc.dlen = last.dlen
          /\ rp["fg"].pc = "idle"

C10Witness ==
  /\ sc.pc = "ret"
  /\ ~sc.err
  /\ Len(sc.seen) >= 2
  /\ sc.seen[1].tag = GFRA

\* ---- C11
\* C11: readPacket called on a frame whose length field decodes to less than
\* 8 takes the twelve header bytes only, no payload byte, and returns an
\* error.
C11Claim ==
  pk.input.kind = "runt" =>
    /\ pk.pc \in {"hdr", "ret"}
    /\ pk.pc = "ret" => (pk.err /\ Len(pk.buf) = pk.input.size - HeaderLen)

\* ---- C12
\* C12 as stated: readPacket, given the bytes sendCommand writes for the tag
\* T and the body B, returns T and a payload equal to B.
C12Claim ==
  (pk.input.kind = "command" /\ pk.pc = "ret") =>
    /\ ~pk.err
    /\ pk.tag = pk.input.tag
    /\ pk.data = pk.input.payload

\* C12, amended: for a body B of at least four characters, readPacket, given
\* the bytes sendCommand writes for T and B, never waits for a byte that is
\* not there and returns, without error, T and a payload equal to B without
\* its last four characters (which it takes as the trailer).
C12Thm ==
  (pk.input.kind = "command" /\ Len(pk.input.payload) >= CrcLen) =>
    /\ pk.pc = "hdr" => Len(pk.buf) >= HeaderLen
    /\ pk.pc = "data" => Len(pk.buf) >= pk.dlen
    /\ pk.pc = "crc" => Len(pk.buf) >= 1
    /\ pk.pc = "ret" =>
         /\ ~pk.err
         /\ pk.tag = pk.input.tag
         /\ pk.data = Take(pk.input.payload, Len(pk.input.payload) - CrcLen)

C12Witness ==
  /\ pk.input.kind = "command"
  /\ pk.pc = "ret"
  /\ ~pk.err
  /\ pk.tag = WREG
  /\ pk.input.payload = <<"B", "4", "A", "B", "X", "X", "X", "X">>
  /\ pk.data = <<"B", "4", "A", "B">>

\* ---- C17
\* C17: readPacket called on any number of garbage bytes followed by one
\* whole frame does not take bytes of the frame while it looks for the
\* marker, and what it returns is the frame's tag and payload, without error.
C17Claim ==
  (pk.input.kind = "frame" /\ pk.input.cut = 0) =>
    /\ pk.pc = "hdr" => Len(pk.buf) >= pk.input.size
    /\ pk.pc = "ret" =>
         /\ ~pk.err
         /\ pk.tag = pk.input.tag
         /\ pk.data = pk.input.payload

\* ---- C18
\* C18: when readPacket returns without error for a whole frame at the head
\* of the stream it has taken the whole frame, header, payload and four
\* trailer bytes; and when the stream ends before the last byte of the frame
\* it returns an error.
C18Claim ==
  (pk.input.kind = "frame" /\ pk.input.g = 0 /\ pk.pc = "ret") =>
    /\ (pk.input.cut = 0 /\ ~pk.err) => Len(pk.buf) = 0
    /\ (pk.input.cut > 0 /\ pk.eof) => pk.err

\* ---- C19
\* C19: a register write called while the goroutine of StartStream runs
\* returns, unless the port has failed, the goroutine has ended, or one of
\* the two is inside readPacket (where it waits for the device).
C19Claim ==
  (fg.op = "writeRegister" /\ LoopRunning)
    ~> (fg.op = "idle" \/ closed \/ lpc = "done"
          \/ InReadPacket("loop") \/ InReadPacket("fg"))

\* ---- C20
\* C20 as stated, the goroutine's half: once the goroutine has decoded,
\* without error, a frame of another type than GFRA, it has returned and the
\* channel is closed.
C20Claim ==
  (hist.proc.tag \notin {<<>>, GFRA} /\ ~hist.proc.err) => (lpc = "done" /\ chClosed)

\* C20, amended: a frame decoded without error whose type is not the awaited
\* one is dropped by both readers.  sendCommand goes on to read the next
\* frame, still holding the mutex; the goroutine goes back to the top of its
\* loop, and the step closes nothing and sends nothing.
C20Thm ==
  [][/\ (sc.pc = "read" /\ rp["fg"].pc = "ret" /\ ~rp["fg"].err
           /\ rp["fg"].tag # CmdType(sc.cmd) /\ sc' # sc)
        => (sc'.pc = "read" /\ rp'["fg"].pc = "hdr" /\ readMutex' = "fg")
     /\ (lpc = "read" /\ rp["loop"].pc = "ret" /\ ~rp["loop"].err
           /\ rp["loop"].tag # GFRA /\ lpc' # lpc)
        => (lpc' = "select" /\ UNCHANGED <<chClosed, videoStream>>)]_vars

C20Witness ==
  /\ hist.proc.tag = WREG
  /\ ~hist.proc.err
  /\ lpc = "select"
  /\ ~chClosed

\* ---- C13
\* C13: SetFramerate called with a rate that is 0 or above MaxFPS returns an
\* error and writes nothing; called with a rate in range, when its write
\* succeeded, it returns MaxFPS / d with d = round(MaxFPS / rate), and d is
\* the value it wrote and the value the FRAME_RATE register holds.
C13Claim ==
  api.ret.op = "SetFramerate" =>
    LET frameRate == api.ret.arg.frameRate
    IN IF frameRate = 0 \/ frameRate > api.MaxFPS
       THEN api.ret.err /\ api.ret.done = <<>>
       ELSE ~api.ret.err =>
              /\ api.ret.num = api.MaxFPS
              /\ api.ret.den = RoundDiv(api.MaxFPS, frameRate)
              /\ api.ret.done[1].reg = FRAME_RATE
              /\ api.ret.done[1].value = api.ret.den
              /\ api.op = "idle" => DevRead(FRAME_RATE.Address) = api.ret.den

\* ---- C14
\* The order of the claim: setting 1 low, setting 1 high, setting 2, control.
C14Order ==
  <<FILTER_SETTING_1_LSB, FILTER_SETTING_1_MSB, FILTER_SETTING_2, FILTER_CONTROL>>

\* C14: while SetFilters runs, the writes it has finished are the first
\* registers of the order, all without error, and the only command it has
\* written since is the write of the next register of the order; when it has
\* returned, its writes are a prefix of the order of which only the last can
\* have failed, it returned an error exactly when the last failed, without
\* error it made all four, and every write that succeeded is in the device.
C14Thm ==
  /\ api.op = "SetFilters" =>
       LET k == Len(api.done)
       IN /\ k < 4
          /\ \A i \in 1..k : api.done[i].reg = C14Order[i] /\ ~api.done[i].err
          /\ fg.op = "writeRegister" => fg.reg = C14Order[k + 1]
          /\ \/ hist.wlog = <<>>
             \/ /\ Len(hist.wlog) = 1
                /\ Take(hist.wlog[1], 6) = WREG \o Hex2(C14Order[k + 1].Address)
  /\ api.ret.op = "SetFilters" =>
       LET d == api.ret.done
       IN /\ Len(d) \in 1..4
          /\ \A i \in 1..Len(d) : d[i].reg = C14Order[i]
          /\ \A i \in 1..(Len(d) - 1) : ~d[i].err
          /\ api.ret.err = d[Len(d)].err
          /\ ~api.ret.err => Len(d) = 4
          /\ api.op = "idle" =>
               \A i \in 1..Len(d) :
                 ~d[i].err => DevRead(d[i].reg.Address) = d[i].value

\* SetFilters failed at its third write: the first two are in the device and
\* FILTER_CONTROL was never written.
C14Witness ==
  /\ api.op = "idle"
  /\ api.ret.op = "SetFilters"
  /\ api.ret.err
  /\ Len(api.ret.done) = 3
  /\ api.ret.arg = DefaultFilterSettings
  /\ DevRead(FILTER_SETTING_1_LSB.Address) = 125
  /\ FILTER_CONTROL.Address \notin DOMAIN dev.mem

\* ---- C15
\* The writes of a SetNETD call that succeeded, with config byte c.
C15Writes(c) ==
  /\ Len(api.ret.done) = 4
  /\ [i \in 1..4 |-> api.ret.done[i].reg]
       = <<NETD_FACTOR, NETD_PIXEL_Y, NETD_PIXEL_X, NETD_CONFIG>>
  /\ [i \in 1..4 |-> api.ret.done[i].value]
       = <<api.ret.arg.Factor, api.ret.arg.Y, api.ret.arg.X, c>>

\* C15 as stated: a SetNETD call that succeeded wrote factor, y, x and then
\* the config byte whose bit 0 is Enabled and whose bit 1 is RowInFrame.
C15Claim ==
  (api.ret.op = "SetNETD" /\ ~api.ret.err) =>
    C15Writes((IF api.ret.arg.Enabled THEN 1 ELSE 0)
                + (IF api.ret.arg.RowInFrame THEN 2 ELSE 0))

\* C15, amended: bit 1 of the config byte is set when both Enabled and
\* RowInFrame are set.
C15Thm ==
  (api.ret.op = "SetNETD" /\ ~api.ret.err) =>
    C15Writes((IF api.ret.arg.Enabled THEN 1 ELSE 0)
                + (IF api.ret.arg.Enabled /\ api.ret.arg.RowInFrame THEN 2 ELSE 0))

C15Witness ==
  /\ api.ret.op = "SetNETD"
  /\ ~api.ret.err
  /\ ~api.ret.arg.Enabled
  /\ api.ret.arg.RowInFrame
  /\ api.ret.done[4].value = 0

\* ---- C16
\* C16: init makes a register transaction after the first only when the type
\* code it read is in the catalog; when the code is not, init returns an
\* error having made that one read and nothing else (no command is in flight
\* and the device's registers are as they were); and when init returns
\* without error the session's type is the device's, is in the catalog and
\* has a sensor size.
C16Thm ==
  /\ (api.op # "idle" /\ api.ipc >= 2) => cameraType \in CameraTypeCodes
  /\ (api.ret.op = "init" /\ ~api.ret.done[1].err
        /\ api.ret.done[1].value \notin CameraTypeCodes) =>
       /\ api.ret.err
       /\ Len(api.ret.done) = 1
       /\ hist.nops = 1
       /\ hist.wlog = <<RregCmd(SENXOR_TYPE.Address)>>
       /\ cmdq = <<>>
       /\ DOMAIN dev.mem = {SENXOR_TYPE.Address}
  /\ (api.ret.op = "init" /\ ~api.ret.err) =>
       /\ cameraType = DevRead(SENXOR_TYPE.Address)
       /\ cameraType \in CameraTypeCodes
       /\ cameraType \in SensorSizeCodes

C16Witness ==
  /\ api.ret.op = "init"
  /\ api.ret.err
  /\ ~api.ret.done[1].err
  /\ api.ret.done[1].value = 4
  /\ cameraType = 4

====
